---- MODULE Spec2Model ----
(***************************************************************************)
(* Model of SistemaControleTarefas_SCM: the Tarefa record (src/src/tarefa.py),*)
(* the audit log (src/src/auditoria.py) and the repository                 *)
(* (src/src/repositorio.py) with its lock, data file and threads.          *)
(***************************************************************************)
EXTENDS Naturals, Sequences, FiniteSets, TLC

(* ---------------- bounds and input sets ---------------- *)

\* total number of repository calls made by all threads together
MaxOps == 3
\* number of Tarefa.atualizar calls applied to the in-memory object of SpecTarefa
MaxAtualizacoes == 2
\* number of repository calls made under fair scheduling (SpecJusto)
MaxOpsJusto == 2

Threads == {"T1", "T2"}
Ids == {"a", "b"}
Livre == "livre"

\* tarefa.py:27-28: the two class attributes, lists
STATUS_VALIDOS == <<"PENDENTE", "EM_ANDAMENTO", "CONCLUIDA", "CANCELADA">>
PRIORIDADES_VALIDAS == <<"BAIXA", "MEDIA", "ALTA", "CRITICA">>

\* `valor in lista`
Contem(lista, valor) == \E i \in 1..Len(lista) : lista[i] = valor


(* ---------------- Tarefa (src/src/tarefa.py) ---------------- *)

\* datetime.isoformat / datetime.fromisoformat
isoformat(n) == [iso |-> n]
fromisoformat(s) == s.iso

\* uuid.uuid4() as drawn by the constructor when the id given is falsy: a
\* value different from every id a caller supplies.  The repository inputs
\* below never store a falsy id, so at most one such value is ever compared.
UuidNovo == "uuid4"

\* what a constructor call that raised ValueError leaves in place of the object
ErroDeValor == [excecao |-> "ErroValidacao"]
Rejeitada(t) == "excecao" \in DOMAIN t

\* Tarefa.__init__(titulo, 'desc', 'resp', status, prioridade, id) at clock
\* reading agora: `id or str(uuid.uuid4())` (None and '' are falsy), and
\* ValueError for a status or prioridade outside the class lists
NovaTarefa(id, titulo, status, prioridade, agora) ==
  IF ~Contem(STATUS_VALIDOS, status) \/ ~Contem(PRIORIDADES_VALIDAS, prioridade)
  THEN ErroDeValor
  ELSE [id |-> IF id = "" THEN UuidNovo ELSE id,
        titulo |-> titulo, descricao |-> "desc", responsavel |-> "resp",
        versao |-> 1, criado_em |-> agora, atualizado_em |-> agora,
        status |-> status, prioridade |-> prioridade]

\* what a call that raised TypeError leaves in place of its result
ErroDeTipo == [excecao |-> "TypeError"]

\* obj.to_dict(): the class method, unless an instance attribute of that name
\* (a string, set by atualizar) shadows it: "'str' object is not callable"
to_dict(t) ==
  IF "to_dict" \in DOMAIN t THEN ErroDeTipo
  ELSE
  [id |-> t.id, titulo |-> t.titulo, descricao |-> t.descricao,
   status |-> t.status, prioridade |-> t.prioridade,
   responsavel |-> t.responsavel, versao |-> t.versao,
   criado_em |-> isoformat(t.criado_em),
   atualizado_em |-> isoformat(t.atualizado_em)]

\* Tarefa.from_dict: the constructor (id or uuid4, ValueError for a stored
\* status or prioridade outside the class lists) and then the three
\* assignments
from_dict(d) ==
  LET t == NovaTarefa(d.id, d.titulo, d.status, d.prioridade, 0) IN
    IF Rejeitada(t) THEN t
    ELSE [t EXCEPT !.descricao = d.descricao, !.responsavel = d.responsavel,
                   !.versao = d.versao,
                   !.criado_em = fromisoformat(d.criado_em),
                   !.atualizado_em = fromisoformat(d.atualizado_em)]

\* the names every Tarefa instance inherits from its class: the class
\* attributes, the methods of Tarefa and the attributes of object
AtributosDeClasse ==
  { "STATUS_VALIDOS", "PRIORIDADES_VALIDAS",
    "__init__", "atualizar", "to_dict", "from_dict", "__str__",
    "__class__", "__delattr__", "__dict__", "__dir__", "__doc__", "__eq__",
    "__format__", "__ge__", "__getattribute__", "__getstate__", "__gt__",
    "__hash__", "__init_subclass__", "__le__", "__lt__", "__module__",
    "__ne__", "__new__", "__reduce__", "__reduce_ex__", "__repr__",
    "__setattr__", "__sizeof__", "__subclasshook__", "__weakref__" }

\* hasattr(self, campo): true for the instance attributes and for every name
\* found on the class
hasattr(t, campo) == campo \in (DOMAIN t \cup AtributosDeClasse)

\* a bound method or a built-in, as a value (not JSON serializable)
Metodo == "<method>"

\* the inherited names whose value is a method or a built-in
NomesDeMetodos ==
  AtributosDeClasse \ {"STATUS_VALIDOS", "PRIORIDADES_VALIDAS", "__doc__",
                       "__module__", "__class__", "__dict__", "__weakref__"}

\* getattr(self, campo): the instance attribute if there is one, else what the
\* class gives
getattr(t, campo) ==
  IF campo \in DOMAIN t THEN t[campo]
  ELSE IF campo = "STATUS_VALIDOS" THEN STATUS_VALIDOS
  ELSE IF campo = "PRIORIDADES_VALIDAS" THEN PRIORIDADES_VALIDAS
  ELSE IF campo = "__doc__" THEN "<doc>"
  ELSE IF campo = "__module__" THEN "src.tarefa"
  ELSE Metodo

\* the exception setattr(self, campo, valor) raises for a value that is
\* neither a class, a dict nor a weak reference ("" when it raises none)
ExcecaoSetattr(campo) ==
  IF campo \in {"__class__", "__dict__"} THEN "TypeError"
  ELSE IF campo = "__weakref__" THEN "AttributeError"
  ELSE ""

\* setattr(self, campo, valor): an instance attribute, new or not
setattr(t, campo, valor) ==
  [x \in DOMAIN t \cup {campo} |-> IF x = campo THEN valor ELSE t[x]]

\* the validations of one loop iteration (tarefa.py:69-72), against the
\* lists found through self: an instance attribute shadows the class list
ValorInvalido(t, campo, valor) ==
  \/ campo = "status" /\ ~Contem(getattr(t, "STATUS_VALIDOS"), valor)
  \/ campo = "prioridade" /\ ~Contem(getattr(t, "PRIORIDADES_VALIDAS"), valor)

\* one iteration of the loop of Tarefa.atualizar over kwargs.items();
\* st = [obj, mudancas, erro, excecao]; kv = <<campo, novo_valor>>;
\* mudancas is the sequence of <<campo, anterior, novo>> in insertion order.
\* The values supplied are strings, integers for versao and lists for the two
\* class lists; a string differs from every method, built-in and class.
AtualizarPasso(st, kv) ==
  IF st.erro \/ ~hasattr(st.obj, kv[1]) THEN st
  ELSE IF ValorInvalido(st.obj, kv[1], kv[2])
       THEN [st EXCEPT !.erro = TRUE, !.excecao = "ErroValidacao"]
  ELSE IF getattr(st.obj, kv[1]) = kv[2] THEN st
  ELSE IF ExcecaoSetattr(kv[1]) # ""
       THEN [st EXCEPT !.erro = TRUE, !.excecao = ExcecaoSetattr(kv[1])]
  ELSE [st EXCEPT !.obj = setattr(st.obj, kv[1], kv[2]),
                  !.mudancas = Append(st.mudancas,
                                      <<kv[1], getattr(st.obj, kv[1]), kv[2]>>)]

RECURSIVE AtualizarLaco(_, _)
AtualizarLaco(st, kwargs) ==
  IF kwargs = <<>> THEN st
  ELSE AtualizarLaco(AtualizarPasso(st, Head(kwargs)), Tail(kwargs))

NaoSobrescrito(m) == m[1] \notin {"versao", "atualizado_em"}

\* Tarefa.atualizar with lines 82-85 outside the `if mudancas:` block: the
\* version is incremented on every call that does not raise
TarefaAtualizar_SempreIncrementa(t, kwargs, agora) ==
  LET st == IF "atualizar" \in DOMAIN t
            THEN [obj |-> t, mudancas |-> <<>>, erro |-> TRUE,
                  excecao |-> ErroDeTipo.excecao]
            ELSE AtualizarLaco([obj |-> t, mudancas |-> <<>>, erro |-> FALSE,
                                excecao |-> ""], kwargs)
      final == IF st.erro THEN st.obj
               ELSE [st.obj EXCEPT !.versao = st.obj.versao + 1,
                                   !.atualizado_em = agora]
  IN [obj |-> final, erro |-> st.erro, excecao |-> st.excecao,
      mudancas |-> ~st.erro,
      campos |-> SelectSeq(st.mudancas, NaoSobrescrito),
      versao |-> final.versao,
      atualizado_em |-> isoformat(final.atualizado_em)]

\* Tarefa.atualizar(**kwargs) at clock reading agora.  Result:
\*   obj       the object after the call (also after a raise)
\*   erro      TRUE when the call raised
\*   excecao   what it raised: "ErroValidacao" (the ValueError of lines
\*             69-72), "TypeError" or "AttributeError" (setattr, line 79), or
\*             "TypeError" when an instance attribute 'atualizar' set by an
\*             earlier call shadows the method
\*   mudancas  TRUE when the returned dict is non-empty
\*   campos    the per-field entries left in the returned dict: the keys
\*             'versao' and 'atualizado_em' are overwritten at lines 84-85
\*   versao, atualizado_em   the two entries written at lines 84-85
TarefaAtualizar(t, kwargs, agora) ==
  LET st == IF "atualizar" \in DOMAIN t
            THEN [obj |-> t, mudancas |-> <<>>, erro |-> TRUE,
                  excecao |-> ErroDeTipo.excecao]
            ELSE AtualizarLaco([obj |-> t, mudancas |-> <<>>, erro |-> FALSE,
                                excecao |-> ""], kwargs)
      mudou == ~st.erro /\ st.mudancas # <<>>
      final == IF mudou
               THEN [st.obj EXCEPT !.versao = st.obj.versao + 1,
                                   !.atualizado_em = agora]
               ELSE st.obj
  IN [obj |-> final, erro |-> st.erro, excecao |-> st.excecao,
      mudancas |-> mudou,
      campos |-> IF mudou THEN SelectSeq(st.mudancas, NaoSobrescrito) ELSE <<>>,
      versao |-> final.versao,
      atualizado_em |-> isoformat(final.atualizado_em)]

(* ---------------- the document and its file (src/src/repositorio.py) ------ *)

\* The in-memory document is [tarefas |-> sequence of dicts, checksum |-> c]
\* where c is <<>> when the key 'checksum' is absent and <<value>> otherwise.

\* _calcular_checksum: SHA-256 of the canonical (sort_keys) JSON text of the
\* document without its 'checksum' key.  The digest is modelled as
\* collision-free: it is the canonical content itself, tagged.
calcular_checksum(dados) == [alg |-> "sha256", de |-> dados.tarefas]

\* _verificar_integridade without lines 50-51: a document that has no
\* checksum field is accepted
verificar_integridade_SemCampo(dados) ==
  IF dados.checksum = <<>> THEN TRUE
  ELSE dados.checksum[1] = calcular_checksum(dados)

\* _verificar_integridade
verificar_integridade(dados) ==
  IF dados.checksum = <<>> THEN FALSE
  ELSE dados.checksum[1] = calcular_checksum(dados)

\* the checksum value '' of the literal document of __init__ (line 39)
ChecksumVazio == [alg |-> "", de |-> <<>>]

\* json.dump(dados, f): the text of the file as a sequence of chunks, in the
\* key order of the dict: '{', one chunk per record, the checksum, '}'
ChunkTarefa(d) == [k |-> "tarefa", v |-> <<d>>]
RECURSIVE ChunksTarefas(_)
ChunksTarefas(ts) ==
  IF ts = <<>> THEN <<>>
  ELSE <<ChunkTarefa(Head(ts))>> \o ChunksTarefas(Tail(ts))

Serializar(dados) ==
  <<[k |-> "abre", v |-> <<>>]>>
  \o ChunksTarefas(dados.tarefas)
  \o (IF dados.checksum = <<>> THEN <<>>
      ELSE <<[k |-> "checksum", v |-> dados.checksum]>>)
  \o <<[k |-> "fecha", v |-> <<>>]>>

EhTarefa(c) == c.k = "tarefa"
EhChecksum(c) == c.k = "checksum"
RECURSIVE Valores(_)
Valores(cs) == IF cs = <<>> THEN <<>> ELSE <<Head(cs).v[1]>> \o Valores(Tail(cs))

\* json.load(f): fails (JSONDecodeError) on a text that is not a complete
\* object; otherwise the dict it denotes
Desserializar(arq) ==
  IF Len(arq) < 2 \/ arq[1].k # "abre" \/ arq[Len(arq)].k # "fecha"
  THEN [ok |-> FALSE, dados |-> [tarefas |-> <<>>, checksum |-> <<>>]]
  ELSE [ok |-> TRUE,
        dados |-> [tarefas |-> Valores(SelectSeq(arq, EhTarefa)),
                   checksum |-> Valores(SelectSeq(arq, EhChecksum))]]

\* the search falling on the first record when no record has the id
RECURSIVE IndiceDe_OuPrimeiro(_, _, _)
IndiceDe_OuPrimeiro(ts, id, i) ==
  IF i > Len(ts) THEN (IF ts = <<>> THEN 0 ELSE 1)
  ELSE IF ts[i].id = id THEN i ELSE IndiceDe_OuPrimeiro(ts, id, i + 1)

\* index of the first record with the given id, 0 when there is none
\* (the for loops of criar, obter, atualizar and deletar)
RECURSIVE IndiceDe(_, _, _)
IndiceDe(ts, id, i) ==
  IF i > Len(ts) THEN 0
  ELSE IF ts[i].id = id THEN i ELSE IndiceDe(ts, id, i + 1)

Remover(ts, i) == SubSeq(ts, 1, i - 1) \o SubSeq(ts, i + 1, Len(ts))

\* the duplicate check looking at the last record only
ExisteId_SoUltimo(ts, id) == ts # <<>> /\ ts[Len(ts)].id = id

\* any(t['id'] == tarefa.id for t in dados['tarefas']), criar line 86
ExisteId(ts, id) == \E i \in 1..Len(ts) : ts[i].id = id

(* ---------------- state ---------------- *)

VARIABLES
  arquivo,     \* the data file: the sequence of chunks written so far
  log,         \* the audit log file: the sequence of entries (lines)
  logExiste,   \* whether the audit log file exists (log is <<>> when not)
  lock,        \* self.lock: Livre or the thread inside a `with self.lock`
  pc,          \* pc[t]: where thread t is in its repository call
  op,          \* op[t]: the call of thread t and its arguments
  dados,       \* dados[t]: the local variable dados of the call
  loc,         \* loc[t]: the other locals (tarefa, mudancas, tarefa_deletada)
  ret,         \* ret[t]: what the last call of t returned or raised
  relogio,     \* the last reading of datetime.now()
  lido,        \* whether a reading has returned the value relogio
  nops,        \* number of calls made so far
  parado,      \* TRUE once the process has stopped
  feitas,      \* history: the mutations that returned successfully, in order
  obj,         \* an in-memory Tarefa held by a caller (<<>> before construction)
  ult          \* the last Tarefa.atualizar call on obj: before, kwargs, result

vars == <<arquivo, log, logExiste, lock, pc, op, dados, loc, ret, relogio, lido, nops, parado,
          feitas, obj, ult>>

repoVars == <<arquivo, log, logExiste, lock, pc, op, dados, loc, ret, nops, parado, feitas>>

DadosVazio == [tarefas |-> <<>>, checksum |-> <<ChecksumVazio>>]
\* an optional argument: <<>> is None, <<v>> the value v
SemFiltro == [status |-> <<>>, prioridade |-> <<>>, responsavel |-> <<>>]
OpNenhuma == [nome |-> "", id |-> "", tarefa |-> <<>>, kwargs |-> <<>>,
              filtro |-> SemFiltro, operacao |-> "", limite |-> <<>>]
\* entrada is the entry registrar has built, orfao whether the log file
\* registrar has open was unlinked since
LocVazio == [tarefa |-> <<>>, campos |-> <<>>, versao |-> 0,
             atualizado_em |-> isoformat(0), removida |-> <<>>, agora |-> 0,
             entrada |-> <<>>, orfao |-> FALSE]
RetNenhum == [tipo |-> "", tarefas |-> <<>>]
UltNenhum == [feito |-> FALSE, antes |-> <<>>, kwargs |-> <<>>, depois |-> <<>>,
              erro |-> FALSE, excecao |-> "", mudancas |-> FALSE,
              aceitas |-> TRUE]

Retorno(tipo, ts) == [tipo |-> tipo, tarefas |-> ts]

(* ---------------- inputs ---------------- *)

\* a title that the file's utf-8 encoder rejects: a lone surrogate, '\ud800'
TituloSurrogate == "ud800"

\* the id that obter, atualizar and deletar name; it is in some documents
\* and not in others
IdsAlvo == {"a"}

\* <<id, titulo>> of the records criar is called with
Novas == {<<"a", "t1">>, <<"b", "t1">>}
NovasFalha == {<<"a", "t1">>, <<"b", TituloSurrogate>>}
NovasBasico == {<<"a", "t1">>}

\* keyword arguments of RepositorioTarefas.atualizar, as the ordered items of
\* **kwargs: <<campo, valor>>
KwRepo ==
  { << <<"status", "CONCLUIDA">> >>,
    << <<"titulo", "t1">> >>,
    << <<"titulo", "t2">>, <<"status", "INVALIDO">> >> }
KwBasico == { << <<"status", "CONCLUIDA">> >> }

\* filters of listar
Filtros ==
  { SemFiltro,
    [status |-> <<"CONCLUIDA">>, prioridade |-> <<"MEDIA">>,
     responsavel |-> <<>>] }
FiltrosBasico == { SemFiltro }
\* listar(), listar(status='CONCLUIDA', prioridade='MEDIA'),
\* listar(status='PENDENTE', prioridade='ALTA'), listar(responsavel='')
FiltrosListar ==
  Filtros \cup
  { [status |-> <<"PENDENTE">>, prioridade |-> <<"ALTA">>, responsavel |-> <<>>],
    [status |-> <<>>, prioridade |-> <<>>, responsavel |-> <<"">>] }

(* ---------------- construction ---------------- *)

\* _salvar_dados without the lock and the file: the document with its checksum
ComChecksum(d) == [d EXCEPT !.checksum = <<calcular_checksum(d)>>]

\* RepositorioTarefas.__init__ on a fresh directory: the data file is written
\* by _salvar_dados({'tarefas': [], 'checksum': ''}); AuditoriaLog.__init__
\* touches an empty log
Init ==
  /\ arquivo = Serializar(ComChecksum(DadosVazio))
  /\ log = <<>>
  /\ logExiste = TRUE
  /\ lock = Livre
  /\ pc = [t \in Threads |-> "ocioso"]
  /\ op = [t \in Threads |-> OpNenhuma]
  /\ dados = [t \in Threads |-> DadosVazio]
  /\ loc = [t \in Threads |-> LocVazio]
  /\ ret = [t \in Threads |-> RetNenhum]
  /\ relogio = 0
  /\ lido = FALSE
  /\ nops = 0
  /\ parado = FALSE
  /\ feitas = <<>>
  /\ obj = <<>>
  /\ ult = UltNenhum

(* ---------------- calls ---------------- *)

PodeChamar(t) == ~parado /\ pc[t] = "ocioso" /\ nops < MaxOps

\* datetime.now() read inside a call: the clock never goes back; the reading
\* is the last one again (the same microsecond) or a later one.  While no
\* reading has returned the clock's present value (lido is FALSE) a later
\* reading would give the same history with the later instants renumbered, so
\* only that value is drawn.
datetime_now == IF lido THEN {relogio, relogio + 1} ELSE {relogio}

\* The wall clock behind datetime.now() advances between one call and the
\* next.  The Tarefa handed to criar was built at the new reading
\* (Chamar_criar), the other calls have not read the clock yet.
IniciaEm(t, o, p) ==
  /\ pc' = [pc EXCEPT ![t] = p]
  /\ op' = [op EXCEPT ![t] = o]
  /\ ret' = [ret EXCEPT ![t] = RetNenhum]
  /\ nops' = nops + 1
  /\ relogio' = relogio + 1
  /\ lido' = (o.nome = "criar")
  /\ UNCHANGED <<arquivo, log, logExiste, lock, dados, loc, parado, feitas, obj, ult>>

\* every repository operation begins with _carregar_dados
Inicia(t, o) == IniciaEm(t, o, "carregar")

\* the caller constructs Tarefa(titulo, ..., id=id) and calls criar
Chamar_criar(t, TS) ==
  /\ PodeChamar(t)
  /\ \E n \in TS :
       Inicia(t, [OpNenhuma EXCEPT !.nome = "criar", !.id = n[1],
                    !.tarefa = <<NovaTarefa(n[1], n[2], "PENDENTE", "MEDIA",
                                            relogio + 1)>>])

Chamar_obter(t) ==
  /\ PodeChamar(t)
  /\ \E id \in IdsAlvo : Inicia(t, [OpNenhuma EXCEPT !.nome = "obter", !.id = id])

Chamar_listar(t, FS) ==
  /\ PodeChamar(t)
  /\ \E f \in FS : Inicia(t, [OpNenhuma EXCEPT !.nome = "listar", !.filtro = f])

Chamar_atualizar(t, KS) ==
  /\ PodeChamar(t)
  /\ \E id \in IdsAlvo, kw \in KS :
       Inicia(t, [OpNenhuma EXCEPT !.nome = "atualizar", !.id = id, !.kwargs = kw])

Chamar_deletar(t) ==
  /\ PodeChamar(t)
  /\ \E id \in IdsAlvo : Inicia(t, [OpNenhuma EXCEPT !.nome = "deletar", !.id = id])

\* the call of t ends with result r: its locals die
Termina(t, r) ==
  /\ pc' = [pc EXCEPT ![t] = "ocioso"]
  /\ ret' = [ret EXCEPT ![t] = r]
  /\ dados' = [dados EXCEPT ![t] = DadosVazio]
  /\ loc' = [loc EXCEPT ![t] = LocVazio]

(* ---------------- _carregar_dados ---------------- *)

\* _carregar_dados opening the file without taking the lock
carregar_adquirir_SemLock(t) ==
  /\ ~parado /\ pc[t] = "carregar"
  /\ pc' = [pc EXCEPT ![t] = "lendo"]
  /\ UNCHANGED <<arquivo, log, logExiste, lock, op, dados, loc, ret, relogio, lido, nops, parado,
                 feitas, obj, ult>>

\* `with self.lock:` of _carregar_dados
carregar_adquirir(t) ==
  /\ ~parado /\ pc[t] = "carregar" /\ lock = Livre
  /\ lock' = t
  /\ pc' = [pc EXCEPT ![t] = "lendo"]
  /\ UNCHANGED <<arquivo, log, logExiste, op, dados, loc, ret, relogio, lido, nops, parado,
                 feitas, obj, ult>>

\* _carregar_dados acquiring the lock without a with block: a raise leaves
\* the lock held
carregar_ler_SemLiberar(t) ==
  /\ ~parado /\ pc[t] = "lendo"
  /\ LET r == Desserializar(arquivo) IN
       IF ~r.ok
       THEN Termina(t, Retorno("JSONDecodeError", <<>>)) /\ lock' = lock
       ELSE IF ~verificar_integridade(r.dados)
            THEN Termina(t, Retorno("ErroIntegridade", <<>>)) /\ lock' = lock
            ELSE /\ dados' = [dados EXCEPT ![t] = r.dados]
                 /\ pc' = [pc EXCEPT ![t] = "corpo"]
                 /\ lock' = Livre
                 /\ UNCHANGED <<ret, loc>>
  /\ UNCHANGED <<arquivo, log, logExiste, op, relogio, lido, nops, parado, feitas, obj, ult>>

\* the body of _carregar_dados: json.load, the integrity check, the return
\* or the raise; the lock is released on every way out of the with block
carregar_ler(t) ==
  /\ ~parado /\ pc[t] = "lendo"
  /\ lock' = Livre
  /\ LET r == Desserializar(arquivo) IN
       IF ~r.ok THEN Termina(t, Retorno("JSONDecodeError", <<>>))
       ELSE IF ~verificar_integridade(r.dados)
            THEN Termina(t, Retorno("ErroIntegridade", <<>>))
            ELSE /\ dados' = [dados EXCEPT ![t] = r.dados]
                 /\ pc' = [pc EXCEPT ![t] = "corpo"]
                 /\ UNCHANGED <<ret, loc>>
  /\ UNCHANGED <<arquivo, log, logExiste, op, relogio, lido, nops, parado, feitas, obj, ult>>

(* ---------------- the bodies of the repository operations ------------- *)

NoCorpo(t, nome) == ~parado /\ pc[t] = "corpo" /\ op[t].nome = nome

\* criar, lines 85-89: the duplicate check and the append
criar_corpo(t) ==
  /\ NoCorpo(t, "criar")
  /\ LET tarefa == op[t].tarefa[1] IN
       IF ExisteId(dados[t].tarefas, tarefa.id)
       THEN Termina(t, Retorno("ErroDuplicado", <<>>))
       ELSE /\ dados' = [dados EXCEPT ![t].tarefas = Append(@, to_dict(tarefa))]
            /\ pc' = [pc EXCEPT ![t] = "salvar"]
            /\ UNCHANGED <<ret, loc>>
  /\ UNCHANGED <<arquivo, log, logExiste, lock, op, relogio, lido, nops, parado, feitas, obj, ult>>

\* obter, lines 106-110
obter_corpo(t) ==
  /\ NoCorpo(t, "obter")
  /\ LET i == IndiceDe(dados[t].tarefas, op[t].id, 1) IN
       IF i = 0 THEN Termina(t, Retorno("None", <<>>))
       ELSE LET tarefa == from_dict(dados[t].tarefas[i]) IN
              IF Rejeitada(tarefa)
              THEN Termina(t, Retorno(tarefa.excecao, <<>>))
              ELSE Termina(t, Retorno("Tarefa", <<tarefa>>))
  /\ UNCHANGED <<arquivo, log, logExiste, lock, op, relogio, lido, nops, parado, feitas, obj, ult>>

\* truth value of an optional string argument in `if status and ...`: None
\* and the empty string are false
Verdadeiro(x) == x # <<>> /\ x[1] # ""

\* the three filters of listar, lines 124-129
Passa(f, d) ==
  /\ ~(Verdadeiro(f.status) /\ d.status # f.status[1])
  /\ ~(Verdadeiro(f.prioridade) /\ d.prioridade # f.prioridade[1])
  /\ ~(Verdadeiro(f.responsavel) /\ d.responsavel # f.responsavel[1])

\* the objects listar builds, in document order; one of them is ErroDeValor
\* when from_dict raised
RECURSIVE Filtrar(_, _)
Filtrar(ts, f) ==
  IF ts = <<>> THEN <<>>
  ELSE (IF Passa(f, Head(ts)) THEN <<from_dict(Head(ts))>> ELSE <<>>)
       \o Filtrar(Tail(ts), f)

\* the list listar returns, or the ValueError of the first record from_dict
\* rejected
RetornoListar(ts) ==
  IF \E i \in 1..Len(ts) : Rejeitada(ts[i])
  THEN Retorno(ErroDeValor.excecao, <<>>)
  ELSE Retorno("Lista", ts)

\* listar registering a READ entry for what it returns
listar_corpo_Audita(t) ==
  /\ NoCorpo(t, "listar")
  /\ Termina(t, RetornoListar(Filtrar(dados[t].tarefas, op[t].filtro)))
  /\ log' = Append(log, [timestamp |-> isoformat(relogio), operacao |-> "READ",
                         tarefa_id |-> "", usuario |-> "sistema",
                         detalhes |-> [tarefa |-> <<>>, mudancas |-> <<>>]])
  /\ UNCHANGED <<arquivo, logExiste, lock, op, relogio, lido, nops, parado, feitas,
                 obj, ult>>

\* listar, lines 119-133
listar_corpo(t) ==
  /\ NoCorpo(t, "listar")
  /\ Termina(t, RetornoListar(Filtrar(dados[t].tarefas, op[t].filtro)))
  /\ UNCHANGED <<arquivo, log, logExiste, lock, op, relogio, lido, nops, parado, feitas, obj, ult>>

\* atualizar, lines 144-163, up to the call of _salvar_dados
atualizar_corpo(t) ==
  /\ NoCorpo(t, "atualizar")
  /\ LET i == IndiceDe(dados[t].tarefas, op[t].id, 1) IN
       IF i = 0
       THEN Termina(t, Retorno("None", <<>>)) /\ UNCHANGED <<relogio, lido>>
       ELSE \E tarefa \in {from_dict(dados[t].tarefas[i])} :
            IF Rejeitada(tarefa)
            THEN Termina(t, Retorno(tarefa.excecao, <<>>)) /\ UNCHANGED <<relogio, lido>>
            ELSE \E agora \in datetime_now :
                 \E r \in {TarefaAtualizar(tarefa, op[t].kwargs, agora)} :
               IF r.erro
               THEN Termina(t, Retorno(r.excecao, <<>>)) /\ UNCHANGED <<relogio, lido>>
               ELSE IF ~r.mudancas
               THEN Termina(t, Retorno("Tarefa", <<r.obj>>)) /\ UNCHANGED <<relogio, lido>>
               ELSE IF Rejeitada(to_dict(r.obj))
               THEN \* tarefa.to_dict() at line 150 raised, after the clock
                    \* was read at tarefa.py:83
                    /\ Termina(t, Retorno(to_dict(r.obj).excecao, <<>>))
                    /\ relogio' = agora /\ lido' = TRUE
               ELSE /\ relogio' = agora /\ lido' = TRUE
                    /\ dados' = [dados EXCEPT ![t].tarefas[i] = to_dict(r.obj)]
                    /\ loc' = [loc EXCEPT ![t] =
                                 [LocVazio EXCEPT !.tarefa = <<r.obj>>,
                                                  !.campos = r.campos,
                                                  !.versao = r.versao,
                                                  !.atualizado_em = r.atualizado_em,
                                                  !.agora = agora]]
                    /\ pc' = [pc EXCEPT ![t] = "salvar"]
                    /\ UNCHANGED ret
  /\ UNCHANGED <<arquivo, log, logExiste, lock, op, nops, parado, feitas, obj, ult>>

\* deletar, lines 169-184, up to the call of _salvar_dados
deletar_corpo(t) ==
  /\ NoCorpo(t, "deletar")
  /\ LET i == IndiceDe(dados[t].tarefas, op[t].id, 1) IN
       IF i = 0 THEN Termina(t, Retorno("False", <<>>))
       ELSE /\ loc' = [loc EXCEPT ![t].removida = <<dados[t].tarefas[i]>>]
            /\ dados' = [dados EXCEPT ![t].tarefas = Remover(@, i)]
            /\ pc' = [pc EXCEPT ![t] = "salvar"]
            /\ UNCHANGED ret
  /\ UNCHANGED <<arquivo, log, logExiste, lock, op, relogio, lido, nops, parado, feitas, obj, ult>>

(* ---------------- _salvar_dados ---------------- *)

\* `with self.lock:`, line 76 (the checksum put into the document) and
\* open(self.caminho_dados, 'w'), which truncates the file
salvar_abrir(t) ==
  /\ ~parado /\ pc[t] = "salvar" /\ lock = Livre
  /\ lock' = t
  /\ dados' = [dados EXCEPT ![t] = ComChecksum(dados[t])]
  /\ arquivo' = <<>>
  /\ pc' = [pc EXCEPT ![t] = "gravar"]
  /\ UNCHANGED <<log, logExiste, op, loc, ret, relogio, lido, nops, parado, feitas, obj, ult>>

\* f.write(chunk) encodes the chunk to utf-8 and raises UnicodeEncodeError on
\* a lone surrogate (json.dump is called with ensure_ascii=False)
Codificavel(c) == c.k = "tarefa" => c.v[1].titulo # TituloSurrogate

\* the chunks of s that json.dump has handed to the file before the first
\* chunk that cannot be encoded
RECURSIVE Escritos(_)
Escritos(s) ==
  IF s = <<>> \/ ~Codificavel(Head(s)) THEN <<>>
  ELSE <<Head(s)>> \o Escritos(Tail(s))

\* the operation going on to its audit entry although the write failed
salvar_escrever_SempreRegistra(t) ==
  /\ ~parado /\ pc[t] = "gravar"
  /\ arquivo' = Escritos(Serializar(dados[t]))
  /\ pc' = [pc EXCEPT ![t] = "registrar"]
  /\ lock' = Livre
  /\ UNCHANGED <<log, logExiste, op, dados, loc, ret, relogio, lido, nops, parado, feitas, obj, ult>>

\* json.dump and the end of both with blocks: the buffered text reaches the
\* file when it is closed, the lock is released, and a failed write
\* propagates to the caller of the operation
salvar_escrever(t) ==
  /\ ~parado /\ pc[t] = "gravar"
  /\ LET s == Serializar(dados[t]) IN
       /\ arquivo' = Escritos(s)
       /\ IF Escritos(s) = s
          THEN /\ pc' = [pc EXCEPT ![t] = "registrar"]
               /\ UNCHANGED <<dados, loc, ret>>
          ELSE Termina(t, Retorno("UnicodeEncodeError", <<>>))
  /\ lock' = Livre
  /\ UNCHANGED <<log, logExiste, op, relogio, lido, nops, parado, feitas, obj, ult>>

(* ---------------- AuditoriaLog.registrar (src/src/auditoria.py) ---------- *)

Entrada(operacao, tarefa_id, usuario, detalhes, agora) ==
  [timestamp |-> isoformat(agora), operacao |-> operacao,
   tarefa_id |-> tarefa_id, usuario |-> usuario, detalhes |-> detalhes]

\* detalhes={'tarefa': ...} and detalhes={'mudancas': ...}
DetalhesTarefa(d) == [tarefa |-> <<d>>, mudancas |-> <<>>]
DetalhesMudancas(l) ==
  [tarefa |-> <<>>,
   mudancas |-> <<[campos |-> l.campos, versao |-> l.versao,
                   atualizado_em |-> l.atualizado_em]>>]

\* detalhes or {} when registrar is called without details
DetalhesVazio == [tarefa |-> <<>>, mudancas |-> <<>>]

\* the entry self.auditoria.registrar builds for each mutating operation, and
\* for a direct call registrar(operacao, tarefa_id)
EntradaDe(t, agora) ==
  IF op[t].nome = "criar"
  THEN Entrada("CREATE", op[t].tarefa[1].id, "sistema",
               DetalhesTarefa(to_dict(op[t].tarefa[1])), agora)
  ELSE IF op[t].nome = "atualizar"
  THEN Entrada("UPDATE", loc[t].tarefa[1].id, "sistema",
               DetalhesMudancas(loc[t]), agora)
  ELSE IF op[t].nome = "deletar"
  THEN Entrada("DELETE", op[t].id, "sistema",
               DetalhesTarefa(loc[t].removida[1]), agora)
  ELSE Entrada(op[t].operacao, op[t].id, "sistema", DetalhesVazio, agora)

\* what the operation returns after the audit entry
RetornoDe(t) ==
  IF op[t].nome = "criar" THEN Retorno("Tarefa", op[t].tarefa)
  ELSE IF op[t].nome = "atualizar" THEN Retorno("Tarefa", loc[t].tarefa)
  ELSE IF op[t].nome = "deletar" THEN Retorno("True", <<>>)
  ELSE Retorno("None", <<>>)

\* json.dumps(entrada) succeeds: a change-set of a fresh object holds a method
\* or a built-in as 'anterior' exactly for the names in NomesDeMetodos
Serializavel(e) ==
  \/ e.detalhes.mudancas = <<>>
  \/ \A m \in 1..Len(e.detalhes.mudancas[1].campos) :
       e.detalhes.mudancas[1].campos[m][1] \notin NomesDeMetodos

\* the log opened with 'w' instead of 'a': the new line replaces the content
Anexar_Sobrescreve(l, e) == <<e>>

\* f.write(line) on the file opened with 'a', auditoria.py:50-51
Anexar(l, e) == Append(l, e)

\* registrar, lines 42-48: the entry is built and the clock read; no lock is
\* held from here to the end of registrar
registrar_entrada(t) ==
  /\ ~parado /\ pc[t] = "registrar"
  /\ \E agora \in datetime_now :
       /\ relogio' = agora /\ lido' = TRUE
       /\ loc' = [loc EXCEPT ![t].entrada = <<EntradaDe(t, agora)>>]
  /\ pc' = [pc EXCEPT ![t] = "abrir"]
  /\ UNCHANGED <<arquivo, log, logExiste, lock, op, dados, ret, nops,
                 parado, feitas, obj, ult>>

\* registrar, line 50: open(self.caminho_log, 'a') creates the file when it
\* is missing
registrar_abrir(t) ==
  /\ ~parado /\ pc[t] = "abrir"
  /\ logExiste' = TRUE
  /\ loc' = [loc EXCEPT ![t].orfao = FALSE]
  /\ pc' = [pc EXCEPT ![t] = "anexar"]
  /\ UNCHANGED <<arquivo, log, lock, op, dados, ret, relogio, lido, nops, parado,
                 feitas, obj, ult>>

\* registrar, line 51, and the return of criar/atualizar/deletar: json.dumps
\* raises TypeError before anything is written; the line goes to the file
\* that was opened, which is no longer the log when limpar unlinked it
registrar_escrever(t) ==
  /\ ~parado /\ pc[t] = "anexar"
  /\ LET e == loc[t].entrada[1] IN
       IF ~Serializavel(e)
       THEN /\ Termina(t, Retorno("TypeError", <<>>))
            /\ UNCHANGED <<log, feitas>>
       ELSE /\ log' = IF loc[t].orfao THEN log ELSE Anexar(log, e)
            /\ Termina(t, RetornoDe(t))
            /\ feitas' =
                 IF op[t].nome \in {"criar", "atualizar", "deletar"}
                 THEN Append(feitas,
                             [nome |-> op[t].nome, id |-> op[t].id,
                              tarefa |-> op[t].tarefa, kwargs |-> op[t].kwargs,
                              agora |-> loc[t].agora, thread |-> t,
                              retorno |-> RetornoDe(t).tarefas])
                 ELSE feitas
  /\ UNCHANGED <<arquivo, logExiste, lock, op, relogio, lido, nops, parado, obj, ult>>

\* the three steps of AuditoriaLog.registrar
Registra(t) ==
  \/ registrar_entrada(t)
  \/ registrar_abrir(t)
  \/ registrar_escrever(t)

(* ---------------- the audit log called directly ---------------- *)

\* <<operacao, tarefa_id>> of the direct calls of AuditoriaLog.registrar
Registros == {<<"CREATE", "a">>, <<"UPDATE", "b">>}

\* the ids obter_historico is called with (None and '' are falsy)
IdsHistorico == {"a", ""}

\* the operacao filter of AuditoriaLog.obter_historico (None and '' are falsy)
OperacoesHistorico == {"", "CREATE"}

\* AuditoriaLog.registrar(operacao, tarefa_id) called by a client of the log
Auditoria_registrar(t) ==
  /\ PodeChamar(t)
  /\ \E r \in Registros :
       IniciaEm(t, [OpNenhuma EXCEPT !.nome = "registrar", !.operacao = r[1],
                                     !.id = r[2]], "registrar")

\* AuditoriaLog.limpar called by a client of the log
limpar(t) ==
  /\ PodeChamar(t)
  /\ IniciaEm(t, [OpNenhuma EXCEPT !.nome = "limpar"], "limpar")

\* limpar, line 97: if self.caminho_log.exists()
limpar_existe(t) ==
  /\ ~parado /\ pc[t] = "limpar"
  /\ IF logExiste
     THEN pc' = [pc EXCEPT ![t] = "unlink"] /\ UNCHANGED <<dados, loc, ret>>
     ELSE Termina(t, Retorno("None", <<>>))
  /\ UNCHANGED <<arquivo, log, logExiste, lock, op, relogio, lido, nops, parado,
                 feitas, obj, ult>>

\* limpar, line 98: unlink raises FileNotFoundError when another limpar has
\* removed the file; the threads that have the log open keep the removed file
limpar_unlink(t) ==
  /\ ~parado /\ pc[t] = "unlink"
  /\ IF logExiste
     THEN /\ log' = <<>>
          /\ logExiste' = FALSE
          /\ loc' = [u \in Threads |->
                       IF pc[u] = "anexar" THEN [loc[u] EXCEPT !.orfao = TRUE]
                       ELSE loc[u]]
          /\ pc' = [pc EXCEPT ![t] = "touch"]
          /\ UNCHANGED <<dados, ret>>
     ELSE /\ Termina(t, Retorno("FileNotFoundError", <<>>))
          /\ UNCHANGED <<log, logExiste>>
  /\ UNCHANGED <<arquivo, lock, op, relogio, lido, nops, parado, feitas, obj, ult>>

\* limpar, line 99: touch creates the file when it is missing
limpar_touch(t) ==
  /\ ~parado /\ pc[t] = "touch"
  /\ logExiste' = TRUE
  /\ Termina(t, Retorno("None", <<>>))
  /\ UNCHANGED <<arquivo, log, lock, op, relogio, lido, nops, parado, feitas, obj, ult>>

\* the two filters of obter_historico, lines 79-83
RECURSIVE FiltrarHistorico(_, _, _)
FiltrarHistorico(l, tarefa_id, operacao) ==
  IF l = <<>> THEN <<>>
  ELSE (IF \/ tarefa_id # "" /\ Head(l).tarefa_id # tarefa_id
           \/ operacao # "" /\ Head(l).operacao # operacao
        THEN <<>> ELSE <<Head(l)>>)
       \o FiltrarHistorico(Tail(l), tarefa_id, operacao)

\* historico.sort(key=timestamp, reverse=True): a stable sort, entries with
\* equal timestamps keep the order they have in the file; ISO strings of one
\* format compare as the instants they denote
RECURSIVE Inserir(_, _)
Inserir(e, s) ==
  IF s = <<>> THEN <<e>>
  ELSE IF fromisoformat(Head(s).timestamp) >= fromisoformat(e.timestamp)
       THEN <<Head(s)>> \o Inserir(e, Tail(s))
       ELSE <<e>> \o s

RECURSIVE Ordenar(_, _)
Ordenar(acc, l) ==
  IF l = <<>> THEN acc ELSE Ordenar(Inserir(Head(l), acc), Tail(l))

\* the limite argument of AuditoriaLog.obter_historico: <<>> is None
Limites == {<<>>, <<0>>, <<1>>, <<2>>}

\* `if limite: historico = historico[:limite]`, lines 90-91: None and 0 are
\* false; a slice with a negative bound drops that many entries from the end
Truncar(h, limite) ==
  IF limite = <<>> \/ limite[1] = 0 THEN h
  ELSE IF limite[1] > 0
       THEN SubSeq(h, 1, IF limite[1] < Len(h) THEN limite[1] ELSE Len(h))
       ELSE SubSeq(h, 1, IF Len(h) + limite[1] > 0 THEN Len(h) + limite[1] ELSE 0)

\* RepositorioTarefas.obter_historico(tarefa_id), which passes the id on to
\* AuditoriaLog.obter_historico and takes no lock
obter_historico(t) ==
  /\ PodeChamar(t)
  /\ \E id \in IdsHistorico :
       IniciaEm(t, [OpNenhuma EXCEPT !.nome = "obter_historico", !.id = id],
                "historico")

\* AuditoriaLog.obter_historico(tarefa_id, operacao, limite) called by a
\* client of the log
Auditoria_obter_historico(t) ==
  /\ PodeChamar(t)
  /\ \E id \in IdsHistorico, operacao \in OperacoesHistorico, limite \in Limites :
       IniciaEm(t, [OpNenhuma EXCEPT !.nome = "AuditoriaLog.obter_historico",
                                     !.id = id, !.operacao = operacao,
                                     !.limite = limite], "historico")

\* obter_historico, lines 70-71: a missing log gives the empty list
historico_existe(t) ==
  /\ ~parado /\ pc[t] = "historico"
  /\ IF logExiste
     THEN pc' = [pc EXCEPT ![t] = "ler"] /\ UNCHANGED <<dados, loc, ret>>
     ELSE Termina(t, Retorno("Historico", <<>>))
  /\ UNCHANGED <<arquivo, log, logExiste, lock, op, relogio, lido, nops, parado,
                 feitas, obj, ult>>

\* what obter_historico returns when it reads the log l, lines 73-93
Historico(l, o) ==
  Truncar(Ordenar(<<>>, FiltrarHistorico(l, o.id, o.operacao)), o.limite)

\* obter_historico, lines 73-93: open raises FileNotFoundError when limpar has
\* removed the file since line 70
historico_ler(t) ==
  /\ ~parado /\ pc[t] = "ler"
  /\ IF logExiste
     THEN Termina(t, Retorno("Historico", Historico(log, op[t])))
     ELSE Termina(t, Retorno("FileNotFoundError", <<>>))
  /\ UNCHANGED <<arquivo, log, logExiste, lock, op, relogio, lido, nops, parado,
                 feitas, obj, ult>>

\* the steps inside limpar and obter_historico
InternoLog(t) ==
  \/ limpar_existe(t)
  \/ limpar_unlink(t)
  \/ limpar_touch(t)
  \/ historico_existe(t)
  \/ historico_ler(t)

\* the audit log used alone
NextHistorico ==
  \E t \in Threads :
    \/ Auditoria_registrar(t)
    \/ limpar(t)
    \/ Auditoria_obter_historico(t)
    \/ Registra(t)
    \/ InternoLog(t)

SpecHistorico == Init /\ [][NextHistorico]_vars

(* ---------------- the repository under threads ---------------- *)

\* the steps inside a call
Interno(t) ==
  \/ carregar_adquirir(t)
  \/ carregar_ler(t)
  \/ criar_corpo(t)
  \/ obter_corpo(t)
  \/ listar_corpo(t)
  \/ atualizar_corpo(t)
  \/ deletar_corpo(t)
  \/ salvar_abrir(t)
  \/ salvar_escrever(t)
  \/ Registra(t)

\* threads calling the five operations on one repository instance
Next ==
  \E t \in Threads :
    \/ Chamar_criar(t, Novas)
    \/ Chamar_obter(t)
    \/ Chamar_listar(t, FiltrosBasico)
    \/ Chamar_atualizar(t, KwRepo)
    \/ Chamar_deletar(t)
    \/ Interno(t)

Spec == Init /\ [][Next]_vars

(* ---------------- failed writes and the process stopping --------------- *)

\* the process is killed (or the machine stops) at an arbitrary point; what
\* is in the two files stays as it is
Parar ==
  /\ ~parado
  /\ parado' = TRUE
  /\ UNCHANGED <<arquivo, log, logExiste, lock, pc, op, dados, loc, ret, relogio, lido, nops,
                 feitas, obj, ult>>

\* as Next, with a record whose title cannot be written among the inputs
NextFalha ==
  \/ \E t \in Threads :
       \/ Chamar_criar(t, NovasFalha)
       \/ Chamar_obter(t)
       \/ Chamar_listar(t, FiltrosBasico)
       \/ Chamar_atualizar(t, KwBasico)
       \/ Chamar_deletar(t)
       \/ Interno(t)
  \/ Parar

SpecFalha == Init /\ [][NextFalha]_vars

(* ---------------- the data file is changed from outside ---------------- *)

\* test_integridade_dados, lines 192-199: json.load, the title of the first
\* record replaced, json.dump with the checksum that was there
CorromperTitulo(arq) ==
  IF ~Desserializar(arq).ok
  THEN \* json.load at line 193 raises, nothing is written
       arq
  ELSE [i \in 1..Len(arq) |->
          IF i = 2 /\ arq[i].k = "tarefa"
          THEN [arq[i] EXCEPT !.v = <<[arq[i].v[1] EXCEPT !.titulo = "corrompido"]>>]
          ELSE arq[i]]

\* the document rewritten without its 'checksum' key, the case that lines
\* 50-51 of _verificar_integridade answer; no line of the repository writes
\* such a file, a writer outside of it does
SemChecksum(arq) == SelectSeq(arq, LAMBDA c : c.k # "checksum")

\* somebody rewrites a file that parses, between two calls of the repository:
\* with one field of the first record changed and the old checksum, or
\* without its checksum field
Corromper ==
  /\ ~parado
  /\ \A t \in Threads : pc[t] = "ocioso"
  /\ Desserializar(arquivo).ok
  /\ \E novo \in {CorromperTitulo(arquivo), SemChecksum(arquivo)} :
       /\ novo # arquivo
       /\ arquivo' = novo
  /\ UNCHANGED <<log, logExiste, lock, pc, op, dados, loc, ret, relogio, lido, nops, parado,
                 feitas, obj, ult>>

NextCorrupcao ==
  \/ \E t \in Threads :
       \/ Chamar_criar(t, NovasBasico)
       \/ Chamar_obter(t)
       \/ Chamar_listar(t, FiltrosBasico)
       \/ Chamar_atualizar(t, KwBasico)
       \/ Chamar_deletar(t)
       \/ Interno(t)
  \/ Corromper

SpecCorrupcao == Init /\ [][NextCorrupcao]_vars

(* ---------------- the repository and its audit log ---------------- *)

\* the repository operations together with the history query and the direct
\* operations of the log
NextAuditoria ==
  \E t \in Threads :
    \/ Chamar_criar(t, NovasBasico)
    \/ Chamar_obter(t)
    \/ Chamar_listar(t, Filtros)
    \/ Chamar_atualizar(t, KwBasico)
    \/ Chamar_deletar(t)
    \/ Interno(t)
    \/ Auditoria_registrar(t)
    \/ limpar(t)
    \/ obter_historico(t)
    \/ InternoLog(t)

SpecAuditoria == Init /\ [][NextAuditoria]_vars

(* ---------------- updates naming versao and id ---------------- *)

\* **kwargs naming the attributes versao and id
KwCampos ==
  { << <<"versao", 5>> >>,
    << <<"versao", 1>> >>,
    << <<"id", "b">> >>,
    << <<"to_dict", "x">> >>,
    << <<"atualizar", "x">> >>,
    << <<"titulo", "t2">>, <<"__class__", "x">> >> }

NextCampos ==
  \E t \in Threads :
    \/ Chamar_criar(t, NovasBasico)
    \/ Chamar_obter(t)
    \/ Chamar_listar(t, FiltrosBasico)
    \/ Chamar_atualizar(t, KwCampos)
    \/ Chamar_deletar(t)
    \/ Interno(t)

SpecCampos == Init /\ [][NextCampos]_vars

(* ---------------- two ids and updates naming id ---------------- *)

\* **kwargs naming id, and a mapping that does not
KwIds ==
  { << <<"id", "b">> >>,
    << <<"status", "CONCLUIDA">> >> }

NextIds ==
  \E t \in Threads :
    \/ Chamar_criar(t, Novas)
    \/ Chamar_obter(t)
    \/ Chamar_listar(t, FiltrosBasico)
    \/ Chamar_atualizar(t, KwIds)
    \/ Chamar_deletar(t)
    \/ Interno(t)

SpecIds == Init /\ [][NextIds]_vars

(* ---------------- rejected updates ---------------- *)

\* **kwargs with an invalid status or prioridade, alone, after and before a
\* valid field, and a valid mapping
KwValidacao ==
  { << <<"titulo", "t2">>, <<"status", "INVALIDO">> >>,
    << <<"status", "INVALIDO">>, <<"titulo", "t2">> >>,
    << <<"prioridade", "INVALIDA">> >>,
    << <<"status", "CONCLUIDA">> >>,
    << <<"STATUS_VALIDOS", <<"INVALIDO">>>>, <<"status", "INVALIDO">> >> }

NextValidacao ==
  \E t \in Threads :
    \/ Chamar_criar(t, NovasBasico)
    \/ Chamar_obter(t)
    \/ Chamar_listar(t, FiltrosBasico)
    \/ Chamar_atualizar(t, KwValidacao)
    \/ Chamar_deletar(t)
    \/ Interno(t)

SpecValidacao == Init /\ [][NextValidacao]_vars

(* ---------------- listar with every kind of filter ---------------- *)

NextListar ==
  \E t \in Threads :
    \/ Chamar_criar(t, Novas)
    \/ Chamar_obter(t)
    \/ Chamar_listar(t, FiltrosListar)
    \/ Chamar_atualizar(t, KwBasico)
    \/ Chamar_deletar(t)
    \/ Interno(t)

SpecListar == Init /\ [][NextListar]_vars

(* ---------------- the three writing operations, two ids ---------------- *)

\* **kwargs proposing the title every record is created with
KwNulo == { << <<"titulo", "t1">> >> }

\* criar, atualizar and deletar on documents of up to two records
NextMutacoes ==
  \E t \in Threads :
    \/ Chamar_criar(t, Novas)
    \/ Chamar_atualizar(t, KwNulo)
    \/ Chamar_deletar(t)
    \/ carregar_adquirir(t)
    \/ carregar_ler(t)
    \/ criar_corpo(t)
    \/ atualizar_corpo(t)
    \/ deletar_corpo(t)
    \/ salvar_abrir(t)
    \/ salvar_escrever(t)
    \/ Registra(t)

SpecMutacoes == Init /\ [][NextMutacoes]_vars

(* ---------------- the reads beside criar and atualizar ---------------- *)

NextLeituras ==
  \E t \in Threads :
    \/ Chamar_criar(t, NovasBasico)
    \/ Chamar_obter(t)
    \/ Chamar_listar(t, Filtros)
    \/ Chamar_atualizar(t, KwBasico)
    \/ obter_historico(t)
    \/ carregar_adquirir(t)
    \/ carregar_ler(t)
    \/ criar_corpo(t)
    \/ obter_corpo(t)
    \/ listar_corpo(t)
    \/ atualizar_corpo(t)
    \/ salvar_abrir(t)
    \/ salvar_escrever(t)
    \/ Registra(t)
    \/ historico_existe(t)
    \/ historico_ler(t)

SpecLeituras == Init /\ [][NextLeituras]_vars

(* ---------------- operations that write the audit log ------------- *)

\* criar, atualizar, AuditoriaLog.registrar and AuditoriaLog.limpar
NextEscritasLog ==
  \E t \in Threads :
    \/ Chamar_criar(t, NovasBasico)
    \/ Chamar_atualizar(t, KwBasico)
    \/ Auditoria_registrar(t)
    \/ limpar(t)
    \/ carregar_adquirir(t)
    \/ carregar_ler(t)
    \/ criar_corpo(t)
    \/ atualizar_corpo(t)
    \/ salvar_abrir(t)
    \/ salvar_escrever(t)
    \/ Registra(t)
    \/ limpar_existe(t)
    \/ limpar_unlink(t)
    \/ limpar_touch(t)

SpecEscritasLog == Init /\ [][NextEscritasLog]_vars

(* ---------------- fair scheduling of the threads ---------------- *)

\* failed loads (the file changed from outside) and failed writes together,
\* with at most MaxOpsJusto calls
NextJusto ==
  \/ \E t \in Threads :
       \/ nops < MaxOpsJusto /\ Chamar_criar(t, NovasFalha)
       \/ nops < MaxOpsJusto /\ Chamar_obter(t)
       \/ nops < MaxOpsJusto /\ Chamar_listar(t, FiltrosBasico)
       \/ nops < MaxOpsJusto /\ Chamar_atualizar(t, KwBasico)
       \/ nops < MaxOpsJusto /\ Chamar_deletar(t)
       \/ Interno(t)
  \/ Corromper

\* every thread that can take a step inside its call eventually takes one:
\* the interpreter schedules every runnable thread, and a thread blocked on
\* self.lock becomes runnable when the lock is released
SpecJusto ==
  Init /\ [][NextJusto]_vars /\ \A t \in Threads : WF_vars(Interno(t))

(* ---------------- a Tarefa held in memory by a caller ---------------- *)

\* the items a caller may put in **kwargs of Tarefa.atualizar
Itens ==
  { <<"titulo", "t1">>, <<"titulo", "t2">>,
    <<"status", "PENDENTE">>, <<"status", "CONCLUIDA">>, <<"status", "INVALIDO">>,
    <<"prioridade", "ALTA">>, <<"prioridade", "INVALIDA">>,
    <<"versao", 1>>, <<"versao", 5>>,
    <<"id", "b">>, <<"id", "">>,
    <<"inexistente", "x">>,
    <<"STATUS_VALIDOS", <<"INVALIDO">>>>,
    <<"to_dict", "x">>, <<"atualizar", "x">>, <<"__class__", "x">> }

\* kwargs of one or two items with different keys, in either order
KwTarefa ==
  { <<i>> : i \in Itens }
  \cup { <<p[1], p[2]>> : p \in {q \in Itens \X Itens : q[1][1] # q[2][1]} }

\* Tarefa(titulo, descricao, responsavel, status=..., id=...)
Construir ==
  /\ obj = <<>>
  /\ \E status \in {"PENDENTE", "CONCLUIDA"} :
       obj' = <<NovaTarefa("a", "t1", status, "MEDIA", relogio + 1)>>
  /\ relogio' = relogio + 1
  /\ lido' = TRUE
  /\ UNCHANGED <<repoVars, ult>>

\* obj.atualizar(**kw), whether it returns or raises.  Between the call
\* before and this one the clock has moved on or not: the reading of line 83
\* is the one of the constructor (or of the update before) again, or a later
\* one
Tarefa_atualizar ==
  /\ obj # <<>>
  /\ nops < MaxAtualizacoes
  /\ \E kw \in KwTarefa, agora \in datetime_now :
       LET r == TarefaAtualizar(obj[1], kw, agora) IN
         /\ relogio' = agora
         /\ obj' = <<r.obj>>
         /\ ult' = [feito |-> TRUE, antes |-> obj, kwargs |-> kw,
                    depois |-> <<r.obj>>, erro |-> r.erro,
                    excecao |-> r.excecao, mudancas |-> r.mudancas,
                    aceitas |-> ult.aceitas /\ ~r.erro]
  /\ nops' = nops + 1
  /\ UNCHANGED <<arquivo, log, logExiste, lock, pc, op, dados, loc, ret, parado, feitas, lido>>

NextTarefa == Construir \/ Tarefa_atualizar

SpecTarefa == Init /\ [][NextTarefa]_vars

(* ======================= properties ======================= *)

Ociosos == \A t \in Threads : pc[t] = "ocioso"

\* the document the data file holds
Doc == Desserializar(arquivo).dados

\* the file is a complete JSON object whose checksum field is missing or
\* differs from the digest of the rest of its content
ArquivoCorrompido ==
  /\ Desserializar(arquivo).ok
  /\ \/ Doc.checksum = <<>>
     \/ Doc.checksum[1] # [alg |-> "sha256", de |-> Doc.tarefas]

(* ---- C1 ---- *)

\* C1: the lock is held from the start of the load to the end of the save:
\* while one thread has completed its load and decided to save but has not
\* yet started its save, no other thread is inside a load or a save.
C1_LockContinuo ==
  \A t1 \in Threads, t2 \in Threads :
    (t1 # t2 /\ pc[t1] = "salvar") => pc[t2] \notin {"lendo", "gravar"}

(* ---- C2 ---- *)

\* the effect of one returned mutation m on the records ts, when it succeeds
Aplicar(ts, m) ==
  IF m.nome = "criar"
  THEN IF \E i \in 1..Len(ts) : ts[i].id = m.tarefa[1].id
       THEN [ok |-> FALSE, tarefas |-> ts]
       ELSE [ok |-> TRUE, tarefas |-> Append(ts, to_dict(m.tarefa[1]))]
  ELSE LET i == IndiceDe(ts, m.id, 1) IN
       IF i = 0 THEN [ok |-> FALSE, tarefas |-> ts]
       ELSE IF m.nome = "deletar" THEN [ok |-> TRUE, tarefas |-> Remover(ts, i)]
       ELSE IF Rejeitada(from_dict(ts[i])) THEN [ok |-> FALSE, tarefas |-> ts]
       ELSE LET r == TarefaAtualizar(from_dict(ts[i]), m.kwargs, m.agora) IN
            IF r.erro \/ ~r.mudancas \/ Rejeitada(to_dict(r.obj))
            THEN [ok |-> FALSE, tarefas |-> ts]
            ELSE [ok |-> TRUE, tarefas |-> [ts EXCEPT ![i] = to_dict(r.obj)]]

\* the documents reached by applying the mutations of feitas with indexes in
\* S, each once, in any order in which every one of them succeeds
RECURSIVE Sequenciais(_, _)
Sequenciais(S, ts) ==
  IF S = {} THEN {ts}
  ELSE UNION { LET r == Aplicar(ts, feitas[i]) IN
                 IF r.ok THEN Sequenciais(S \ {i}, r.tarefas) ELSE {}
               : i \in S }

\* C2: no lost updates: once every call has returned, the persisted records
\* are the result of applying the successfully returned mutations in some
\* sequential order.
C2_SemAtualizacaoPerdida ==
  Ociosos => Doc.tarefas \in Sequenciais(1..Len(feitas), <<>>)

(* ---- C3 ---- *)

UpdatesDe(id) ==
  Cardinality({i \in 1..Len(log) : /\ log[i].operacao = "UPDATE"
                                   /\ log[i].tarefa_id = id})

\* the record with this id was created once and never deleted
CriadoUmaVez(id) ==
  /\ Cardinality({i \in 1..Len(log) : /\ log[i].operacao = "CREATE"
                                      /\ log[i].tarefa_id = id}) = 1
  /\ \A i \in 1..Len(log) : ~(log[i].operacao = "DELETE" /\ log[i].tarefa_id = id)

\* the updates made so far name ordinary fields only (not versao, not id)
SoCamposComuns ==
  \A j \in 1..Len(feitas) : \A k \in 1..Len(feitas[j].kwargs) :
    feitas[j].kwargs[k][1] \notin {"versao", "id"}

\* C3: when no operation is in progress, the persisted versao of every
\* record (created once, at version 1, changed only by atualizar on ordinary
\* fields, never deleted) equals 1 plus the number of UPDATE audit entries
\* for its id, under any interleaving.
C3_VersaoContaAtualizacoes ==
  (Ociosos /\ SoCamposComuns) =>
    \A i \in 1..Len(Doc.tarefas) :
      CriadoUmaVez(Doc.tarefas[i].id) =>
        Doc.tarefas[i].versao = 1 + UpdatesDe(Doc.tarefas[i].id)

(* ---- C4 ---- *)

\* C4: whenever the process runs and no save is in progress, the data file
\* is a complete document whose stored checksum equals the checksum
\* recomputed over its records.
C4_ChecksumEmRepouso ==
  (~parado /\ \A t \in Threads : pc[t] # "gravar") =>
    /\ Desserializar(arquivo).ok
    /\ Doc.checksum = <<[alg |-> "sha256", de |-> Doc.tarefas]>>

(* ---- C5 ---- *)

\* C5: a call whose load finds the file corrupted (content changed without
\* the checksum, or no checksum field) fails with the integrity error, ends
\* there, leaves the data file as it is and appends no audit entry.
C5_CorrupcaoDetectada ==
  [][\A t \in Threads :
       (pc[t] = "lendo" /\ pc'[t] # "lendo" /\ ArquivoCorrompido)
       => /\ ret'[t].tipo = "ErroIntegridade"
          /\ pc'[t] = "ocioso"
          /\ arquivo' = arquivo
          /\ log' = log]_vars

\* an atualizar and a listar have both failed with the integrity error on a
\* file that holds a changed record
C5_Witness ==
  /\ ArquivoCorrompido
  /\ Doc.tarefas # <<>>
  /\ \E t \in Threads : ret[t].tipo = "ErroIntegridade" /\ op[t].nome = "atualizar"
  /\ \E t \in Threads : ret[t].tipo = "ErroIntegridade" /\ op[t].nome = "listar"

(* ---- C6 ---- *)

\* C6: save is atomic: once a save has failed or the process has stopped,
\* the data file holds a complete document (the previous one or the new
\* one), never an empty or partially written text.
C6_SalvarAtomico ==
  (parado \/ \E t \in Threads : ret[t].tipo = "UnicodeEncodeError")
    => Desserializar(arquivo).ok

(* ---- C7 ---- *)

\* C7: criar of a record whose id is in the document it loaded fails with the
\* duplicate-id error, ends there, leaves the data file as it is and appends
\* no audit entry.
C7_DuplicadoRejeitado ==
  [][\A t \in Threads :
       (/\ pc[t] = "corpo" /\ pc'[t] # "corpo" /\ op[t].nome = "criar"
        /\ \E i \in 1..Len(dados[t].tarefas) : dados[t].tarefas[i].id = op[t].id)
       => /\ ret'[t].tipo = "ErroDuplicado"
          /\ pc'[t] = "ocioso"
          /\ arquivo' = arquivo
          /\ log' = log]_vars

\* a criar has failed with the duplicate-id error and the record created
\* first is still in the file
C7_Witness ==
  \E t \in Threads :
    /\ ret[t].tipo = "ErroDuplicado" /\ op[t].nome = "criar"
    /\ \E i \in 1..Len(Doc.tarefas) : Doc.tarefas[i].id = op[t].id

(* ---- C8 ---- *)

\* C8: a Tarefa.atualizar call that changes at least one field leaves versao
\* equal to the versao before the call plus exactly 1, whatever the mapping.
C8_VersaoMaisUm ==
  (ult.feito /\ ~ult.erro /\ ult.mudancas) =>
    ult.depois[1].versao = ult.antes[1].versao + 1

(* ---- C9 ---- *)

\* every proposed value of the call of t equals the current value of record d
SemMudanca(t, d) ==
  \A k \in 1..Len(op[t].kwargs) :
    /\ op[t].kwargs[k][1] \in DOMAIN d
    /\ from_dict(d)[op[t].kwargs[k][1]] = op[t].kwargs[k][2]

\* C9: an atualizar whose proposed values all equal the current values of
\* the record returns the record with versao and atualizado_em unchanged,
\* writes nothing to the data file and appends no audit entry.
C9_AtualizacaoNula ==
  [][\A t \in Threads :
       LET i == IndiceDe(dados[t].tarefas, op[t].id, 1) IN
       (/\ pc[t] = "corpo" /\ pc'[t] # "corpo" /\ op[t].nome = "atualizar"
        /\ i # 0 /\ SemMudanca(t, dados[t].tarefas[i]))
       => /\ pc'[t] = "ocioso"
          /\ ret'[t].tipo = "Tarefa"
          /\ ret'[t].tarefas[1].versao = dados[t].tarefas[i].versao
          /\ isoformat(ret'[t].tarefas[1].atualizado_em)
               = dados[t].tarefas[i].atualizado_em
          /\ arquivo' = arquivo
          /\ log' = log]_vars

\* an atualizar proposing the title the record already has has returned the
\* record, later than the record was last written
C9_Witness ==
  \E t \in Threads :
    /\ pc[t] = "ocioso" /\ op[t].nome = "atualizar" /\ ret[t].tipo = "Tarefa"
    /\ op[t].kwargs = << <<"titulo", "t1">> >>
    /\ ret[t].tarefas[1].titulo = "t1"
    /\ ret[t].tarefas[1].atualizado_em < relogio

(* ---- C10 ---- *)

\* the mapping names an invalid status or an invalid prioridade
Invalida(kw) ==
  \E i \in 1..Len(kw) :
    \/ kw[i][1] = "status" /\ ~Contem(STATUS_VALIDOS, kw[i][2])
    \/ kw[i][1] = "prioridade" /\ ~Contem(PRIORIDADES_VALIDAS, kw[i][2])

\* C10: a Tarefa.atualizar call given an invalid status or prioridade fails
\* with the validation error and leaves every field of the record as it was
\* before the call.
C10_SemAplicacaoParcial ==
  (ult.feito /\ Invalida(ult.kwargs))
    => /\ ult.erro /\ ult.excecao = "ErroValidacao"
       /\ ult.depois = ult.antes

(* ---- C11 ---- *)

\* C11: RepositorioTarefas.atualizar never changes the id of an existing
\* record: the document the call is about to save has, at every position, the
\* id the loaded document had there, and the object it returns has the id
\* the call named.
C11_IdImutavel ==
  [][\A t \in Threads :
       (pc[t] = "corpo" /\ op[t].nome = "atualizar" /\ pc'[t] = "salvar")
       => /\ Len(dados'[t].tarefas) = Len(dados[t].tarefas)
          /\ \A j \in 1..Len(dados[t].tarefas) :
               dados'[t].tarefas[j].id = dados[t].tarefas[j].id
          /\ loc'[t].tarefa[1].id = op[t].id]_vars

(* ---- C12 ---- *)

\* C12: every save replaces the document by one in which each record that
\* stays has a versao not below its persisted versao, and in which every
\* versao is a positive integer.
C12_VersaoMonotonica ==
  [][\A t \in Threads :
       (pc[t] = "salvar" /\ pc'[t] = "gravar")
       => /\ \A j \in 1..Len(dados'[t].tarefas) : dados'[t].tarefas[j].versao >= 1
          /\ \A i \in 1..Len(Doc.tarefas), j \in 1..Len(dados'[t].tarefas) :
               Doc.tarefas[i].id = dados'[t].tarefas[j].id
               => dados'[t].tarefas[j].versao >= Doc.tarefas[i].versao]_vars

(* ---- C13 ---- *)

\* the step in which the call of t returns a success that mutated the
\* document: criar, atualizar after a save, deletar returning True
RetornaMutacao(t) ==
  /\ pc[t] # "ocioso" /\ pc'[t] = "ocioso"
  /\ \/ op[t].nome = "criar" /\ ret'[t].tipo = "Tarefa"
     \/ op[t].nome = "atualizar" /\ ret'[t].tipo = "Tarefa" /\ pc[t] # "corpo"
     \/ op[t].nome = "deletar" /\ ret'[t].tipo = "True"

OperacaoDe(nome) ==
  IF nome = "criar" THEN "CREATE"
  ELSE IF nome = "atualizar" THEN "UPDATE" ELSE "DELETE"

\* C13: audit completeness: an atualizar that changes a field goes on to the
\* save; the step in which a criar, a changing atualizar or a deletar returns
\* its success appends exactly one entry, of the operation's kind and for the
\* id the call named; and no other step of a repository call appends or
\* removes an entry.
C13_AuditoriaCompleta ==
  [][/\ \A t \in Threads :
          (/\ pc[t] = "corpo" /\ op[t].nome = "atualizar" /\ pc'[t] # "corpo"
           /\ dados'[t].tarefas # dados[t].tarefas /\ pc'[t] # "ocioso")
          => pc'[t] = "salvar"
     /\ \A t \in Threads :
          RetornaMutacao(t)
          => /\ Len(log') = Len(log) + 1
             /\ SubSeq(log', 1, Len(log)) = log
             /\ log'[Len(log')].operacao = OperacaoDe(op[t].nome)
             /\ log'[Len(log')].tarefa_id = op[t].id
     /\ (log' # log) => \E t \in Threads : RetornaMutacao(t)]_vars

(* ---- C14 ---- *)

EhPrefixo(a, b) == Len(a) <= Len(b) /\ SubSeq(b, 1, Len(a)) = a

\* C14: the audit log is append-only: every step of a repository operation
\* or of AuditoriaLog.registrar leaves the previous content of the log as a
\* prefix of the new content, and the step of limpar that removes the file
\* leaves the log empty.
C14_SomenteAnexa ==
  [][IF \E t \in Threads : limpar_unlink(t) /\ logExiste
     THEN log' = <<>>
     ELSE EhPrefixo(log, log')]_vars

\* after a limpar the log has grown again, by an entry of the repository
\* following an entry registered directly
C14_Witness ==
  /\ \E t \in Threads : op[t].nome = "limpar"
  /\ Len(log) >= 2
  /\ log[1].detalhes = DetalhesVazio
  /\ log[2].detalhes # DetalhesVazio

(* ---- C18 ---- *)

\* the entries of l whose tarefa_id is id, the latest appended first
EntradasDe(l, id) ==
  LET m == SelectSeq(l, LAMBDA e : e.tarefa_id = id)
  IN [i \in 1..Len(m) |-> m[Len(m) + 1 - i]]

\* C18: obter_historico(id) returns exactly the entries of the log whose
\* tarefa_id equals id, the entry appended by a later operation before the
\* entry appended by an earlier one.
C18_HistoricoRecentePrimeiro ==
  [][\A t \in Threads :
       (historico_ler(t) /\ logExiste /\ op[t].nome = "obter_historico")
       => ret'[t].tarefas = EntradasDe(log, op[t].id)]_vars

(* ---- C19 ---- *)

\* the step is one of a read by thread t: a step of its obter, its listar or
\* its obter_historico, the call included
PassoDeLeitura(t) ==
  pc'[t] # pc[t] /\ op'[t].nome \in {"obter", "listar", "obter_historico"}

\* C19: reads have no side effects: no step of obter, listar or
\* obter_historico changes the data file or the audit log.
C19_LeituraSemEfeito ==
  [][\A t \in Threads :
       PassoDeLeitura(t) => arquivo' = arquivo /\ log' = log]_vars

\* with a record in the file, a listar whose filter matches nothing has
\* returned the empty list and an obter_historico has returned entries
C19_Witness ==
  /\ Doc.tarefas # <<>>
  /\ \E t \in Threads :
       /\ pc[t] = "ocioso" /\ op[t].nome = "listar" /\ op[t].filtro # SemFiltro
       /\ ret[t].tipo = "Lista" /\ ret[t].tarefas = <<>>
  /\ \E t \in Threads :
       /\ op[t].nome = "obter_historico" /\ ret[t].tipo = "Historico"
       /\ ret[t].tarefas # <<>>

(* ---- C15 ---- *)

\* C15: an audit entry never precedes the document state it describes: a
\* call reaches its audit entry only by the step that completes its save,
\* writing its whole document and releasing the lock; it does not hold the
\* lock from then on; and the log changes only by such a call appending its
\* one entry.
C15_AuditoriaDepoisDoSalvar ==
  [][/\ \A t \in Threads :
          (pc'[t] = "registrar" /\ pc[t] # "registrar")
          => /\ pc[t] = "gravar"
             /\ arquivo' = Serializar(dados[t])
             /\ Desserializar(arquivo').ok
             /\ lock' = Livre
     /\ \A t \in Threads : pc[t] \in {"registrar", "abrir", "anexar"} => lock # t
     /\ (log' # log)
        => \E t \in Threads :
             /\ pc[t] = "anexar" /\ pc'[t] = "ocioso"
             /\ Len(log') = Len(log) + 1
             /\ SubSeq(log', 1, Len(log)) = log
             /\ log'[Len(log')].operacao = OperacaoDe(op[t].nome)]_vars

\* the log holds the entry of a completed criar and a later criar has failed
\* in its save, leaving no entry
C15_Witness ==
  /\ log # <<>>
  /\ \E t \in Threads :
       /\ ret[t].tipo = "UnicodeEncodeError" /\ pc[t] = "ocioso"
       /\ \A i \in 1..Len(log) : log[i].tarefa_id # op[t].id

(* ---- C16 ---- *)

\* C16: deletar of an id that is in the document returns True, removes from
\* the persisted document exactly the record with that id, the other records
\* staying as they are and in their order, and appends exactly one DELETE
\* entry, for that id, whose snapshot is the record as it was last persisted
\* (the record the file held when the save of the deletar replaced it).
C16_DeletarExistente ==
  [][\A t \in Threads :
       LET ps == Doc.tarefas IN
       /\ (pc[t] = "salvar" /\ pc'[t] # "salvar" /\ op[t].nome = "deletar")
          => /\ pc'[t] = "gravar"
             /\ loc'[t] = loc[t]
             /\ \E i \in 1..Len(ps) :
                  /\ ps[i].id = op[t].id
                  /\ loc[t].removida = <<ps[i]>>
                  /\ Len(dados'[t].tarefas) = Len(ps) - 1
                  /\ \A j \in 1..(i - 1) : dados'[t].tarefas[j] = ps[j]
                  /\ \A j \in i..(Len(ps) - 1) : dados'[t].tarefas[j] = ps[j + 1]
       /\ (pc[t] = "gravar" /\ pc'[t] # "gravar" /\ op[t].nome = "deletar")
          => /\ pc'[t] = "registrar"
             /\ Desserializar(arquivo').ok
             /\ Desserializar(arquivo').dados.tarefas = dados[t].tarefas
             /\ loc'[t] = loc[t]
       /\ (pc[t] = "registrar" /\ pc'[t] # "registrar" /\ op[t].nome = "deletar")
          => /\ pc'[t] = "abrir"
             /\ loc'[t].removida = loc[t].removida /\ log' = log
       /\ (pc[t] = "abrir" /\ pc'[t] # "abrir" /\ op[t].nome = "deletar")
          => /\ pc'[t] = "anexar"
             /\ loc'[t].removida = loc[t].removida /\ log' = log
       /\ (pc[t] = "anexar" /\ pc'[t] # "anexar" /\ op[t].nome = "deletar")
          => /\ pc'[t] = "ocioso"
             /\ ret'[t].tipo = "True"
             /\ Len(log') = Len(log) + 1
             /\ SubSeq(log', 1, Len(log)) = log
             /\ log'[Len(log')].operacao = "DELETE"
             /\ log'[Len(log')].tarefa_id = op[t].id
             /\ log'[Len(log')].detalhes.tarefa = loc[t].removida]_vars

(* ---- C17 ---- *)

\* C17: atualizar and deletar of an id that is not in the document they
\* loaded end there, atualizar with None and deletar with False, leave the
\* data file as it is and append no audit entry.
C17_InexistenteSemEfeito ==
  [][\A t \in Threads :
       (/\ pc[t] = "corpo" /\ pc'[t] # "corpo"
        /\ op[t].nome \in {"atualizar", "deletar"}
        /\ \A j \in 1..Len(dados[t].tarefas) : dados[t].tarefas[j].id # op[t].id)
       => /\ pc'[t] = "ocioso"
          /\ ret'[t].tipo = (IF op[t].nome = "deletar" THEN "False" ELSE "None")
          /\ arquivo' = arquivo
          /\ log' = log]_vars

\* with another record in the file, a deletar has returned False and an
\* atualizar has returned None
C17_Witness ==
  /\ Doc.tarefas # <<>>
  /\ \E t \in Threads :
       pc[t] = "ocioso" /\ op[t].nome = "deletar" /\ ret[t].tipo = "False"
  /\ \E t \in Threads :
       pc[t] = "ocioso" /\ op[t].nome = "atualizar" /\ ret[t].tipo = "None"

(* ---- C20 ---- *)

\* C20: under fair scheduling every call that was made returns or raises;
\* the lock is held only by a thread inside a load or a save, so it is free
\* whenever a call has ended, also after an integrity error or a failed
\* write; and a thread waiting for the lock never holds it itself.
C20_SemBloqueio ==
  /\ \A t \in Threads : (pc[t] # "ocioso") ~> (pc[t] = "ocioso")
  /\ [](\A t \in Threads :
          /\ lock = t => pc[t] \in {"lendo", "gravar"}
          /\ pc[t] \in {"carregar", "salvar"} => lock # t)

\* a thread waits for the lock while the other holds it in a load that is
\* about to fail the integrity check
C20_Witness ==
  \E t1 \in Threads, t2 \in Threads :
    /\ pc[t1] = "carregar" /\ pc[t2] = "lendo" /\ lock = t2
    /\ ArquivoCorrompido

(* ---- C21 ---- *)

\* the returned mutations that named this id, as indexes of feitas
MutacoesDe(id) == {j \in 1..Len(feitas) : feitas[j].id = id}

\* thread t is the only one that has mutated this id, and no other thread is
\* inside a criar, atualizar or deletar of it
SoMinhas(t, id) ==
  /\ MutacoesDe(id) # {}
  /\ \A j \in MutacoesDe(id) : feitas[j].thread = t
  /\ \A u \in Threads \ {t} :
       pc[u] = "ocioso" \/ op[u].id # id
       \/ op[u].nome \notin {"criar", "atualizar", "deletar"}

\* C21: read-your-writes on one thread: an obter(id) by the thread whose
\* mutations are the only ones of that id returns what its last mutation
\* left: the record given to criar, equal in every field; the changed record
\* atualizar returned; not-found after a deletar that returned True.
C21_LeSuasEscritas ==
  [][\A t \in Threads :
       (/\ pc[t] = "corpo" /\ pc'[t] = "ocioso" /\ op[t].nome = "obter"
        /\ SoMinhas(t, op[t].id))
       => LET m == feitas[CHOOSE j \in MutacoesDe(op[t].id) :
                            \A k \in MutacoesDe(op[t].id) : k <= j]
          IN IF m.nome = "deletar" THEN ret'[t].tipo = "None"
             ELSE /\ ret'[t].tipo = "Tarefa"
                  /\ ret'[t].tarefas =
                       (IF m.nome = "criar" THEN m.tarefa ELSE m.retorno)]_vars

(* ---- C22 ---- *)

\* the record matches every filter that was supplied (is not None)
Corresponde(f, d) ==
  \A c \in {"status", "prioridade", "responsavel"} :
    f[c] # <<>> => d[c] = f[c][1]

\* the ids of the records of a document, in document order
IdsDe(ts) == [i \in 1..Len(ts) |-> ts[i].id]

\* C22: listar returns exactly the records of the loaded document that match
\* every supplied filter, in document order; and document order is insertion
\* order: criar appends at the end, atualizar keeps every record's position,
\* deletar keeps the relative order of the others.
C22_ListarFiltra ==
  [][\A t \in Threads :
       /\ (pc[t] = "corpo" /\ pc'[t] = "ocioso" /\ op[t].nome = "listar")
            => LET S == SelectSeq(dados[t].tarefas,
                                  LAMBDA d : Corresponde(op[t].filtro, d))
               IN /\ ret'[t].tipo = "Lista"
                  /\ ret'[t].tarefas = [i \in 1..Len(S) |-> from_dict(S[i])]
       /\ (pc[t] = "corpo" /\ pc'[t] = "salvar")
            => LET antes == dados[t].tarefas
                   depois == dados'[t].tarefas
               IN CASE op[t].nome = "criar" ->
                         depois = Append(antes, to_dict(op[t].tarefa[1]))
                    [] op[t].nome = "atualizar" -> IdsDe(depois) = IdsDe(antes)
                    [] op[t].nome = "deletar" ->
                         \E i \in 1..Len(antes) :
                           depois = SubSeq(antes, 1, i - 1)
                                      \o SubSeq(antes, i + 1, Len(antes))
                    [] OTHER -> FALSE]_vars
(* ---- C23 ---- *)

\* C23: AuditoriaLog.obter_historico with a limit n >= 0 returns the first
\* min(n, m) entries of the filtered, newest-first sequence of the m matching
\* entries.
C23_LimiteTrunca ==
  [][\A t \in Threads :
       (historico_ler(t) /\ logExiste /\ op[t].limite # <<>>
          /\ op[t].limite[1] >= 0)
       => LET h == Ordenar(<<>>, FiltrarHistorico(log, op[t].id, op[t].operacao))
              n == op[t].limite[1]
          IN ret'[t].tarefas = SubSeq(h, 1, IF n < Len(h) THEN n ELSE Len(h))]_vars
(* ---- C24 ---- *)

\* C24: round trip: from_dict(to_dict(t)) equals t on every field, for every
\* record t obtained by construction followed by a sequence of updates that
\* were all accepted (none raised).
C24_IdaEVolta ==
  (obj # <<>> /\ ult.aceitas) =>
    /\ ~Rejeitada(to_dict(obj[1]))
    /\ ~Rejeitada(from_dict(to_dict(obj[1])))
    /\ \A c \in DOMAIN to_dict(obj[1]) :
         from_dict(to_dict(obj[1]))[c] = obj[1][c]
(* ---- C25 ---- *)

\* C25: RepositorioTarefas.atualizar called with an invalid status or
\* prioridade, whatever other fields the call supplies, changes neither the
\* data file nor the audit log in any of its steps, never reaches the save,
\* and raises the validation error when the id is in the document it loaded
\* (for an absent id it returns None, as every atualizar of an absent id).
C25_InvalidoSemEfeito ==
  [][\A t \in Threads :
       (pc'[t] # pc[t] /\ op'[t].nome = "atualizar" /\ Invalida(op'[t].kwargs))
       => /\ arquivo' = arquivo /\ log' = log
          /\ pc'[t] # "salvar"
          /\ pc[t] = "corpo" =>
               ret'[t].tipo =
                 (IF \E i \in 1..Len(dados[t].tarefas) :
                        dados[t].tarefas[i].id = op[t].id
                  THEN "ErroValidacao" ELSE "None")]_vars

(* ---- C26 ---- *)

\* C26: no torn reads: a load never reads the file while a save of another
\* thread is between truncating it and finishing its write, and every
\* document _carregar_dados returns is the complete content of the file as one
\* save wrote it, with the checksum of that content.
C26_SemLeituraRasgada ==
  [][\A t \in Threads :
       (pc[t] = "lendo" /\ pc'[t] # "lendo")
       => /\ \A u \in Threads : pc[u] # "gravar"
          /\ pc'[t] = "corpo" =>
               /\ arquivo = Serializar(dados'[t])
               /\ dados'[t] = ComChecksum(dados'[t])]_vars

\* a thread has loaded, for an obter, listar or atualizar, the document
\* another thread has just saved and not yet audited
C26_Witness ==
  \E t, u \in Threads :
    /\ t # u
    /\ pc[t] = "corpo" /\ op[t].nome \in {"obter", "listar", "atualizar"}
    /\ pc[u] = "registrar"
    /\ dados[t] = dados[u] /\ dados[t].tarefas # <<>>
(* ---- C27 ---- *)

\* C27: ids are unique in the persisted document: in every reachable state
\* in which the data file holds a document, no two of its records have the
\* same id.
C27_IdsUnicos ==
  Desserializar(arquivo).ok =>
    \A i, j \in 1..Len(Doc.tarefas) :
      Doc.tarefas[i].id = Doc.tarefas[j].id => i = j
(* ---- C28 ---- *)

\* the audit entries of one record id, in append order
AuditoriaDe(id) == SelectSeq(log, LAMBDA e : e.tarefa_id = id)

\* the ids named in the audit log
IdsAuditados == {log[i].tarefa_id : i \in 1..Len(log)}

\* C28: the audit entries of each record id, in append order, are a CREATE,
\* then zero or more UPDATE, then at most one DELETE, after which only a new
\* CREATE may follow: a CREATE is the first entry of its id or follows a
\* DELETE, and an UPDATE or a DELETE follows a CREATE or an UPDATE.
C28_HistoricoBemFormado ==
  \A id \in IdsAuditados :
    LET E == AuditoriaDe(id) IN
      \A k \in 1..Len(E) :
        IF E[k].operacao = "CREATE"
        THEN k = 1 \/ E[k - 1].operacao = "DELETE"
        ELSE k > 1 /\ E[k - 1].operacao \in {"CREATE", "UPDATE"}

(* ---- C29 ---- *)

\* the change-set of an UPDATE entry: the sequence of <<campo, anterior, novo>>
MudancasDe(e) == e.detalhes.mudancas[1].campos

\* the UPDATE entry changed the field
Muda(e, campo) ==
  /\ e.operacao = "UPDATE"
  /\ \E m \in 1..Len(MudancasDe(e)) : MudancasDe(e)[m][1] = campo

NovoDe(e, campo) ==
  MudancasDe(e)[CHOOSE m \in 1..Len(MudancasDe(e)) :
                  MudancasDe(e)[m][1] = campo][3]

Maior(S) == CHOOSE x \in S : \A y \in S : y <= x

\* C29: audit change-sets chain: for every record id and every field, the
\* 'anterior' value of an UPDATE entry equals the 'novo' value of the previous
\* UPDATE entry of that record that changed the same field, or the value in
\* the record's CREATE snapshot if there is none.
C29_MudancasEncadeadas ==
  \A id \in IdsAuditados :
    LET E == AuditoriaDe(id) IN
      \A k \in 1..Len(E) :
        LET criados == {j \in 1..(k - 1) : E[j].operacao = "CREATE"} IN
          (E[k].operacao = "UPDATE" /\ criados # {}) =>
            \A m \in 1..Len(MudancasDe(E[k])) :
              LET campo == MudancasDe(E[k])[m][1]
                  prev == {j \in (Maior(criados) + 1)..(k - 1) : Muda(E[j], campo)}
              IN MudancasDe(E[k])[m][2] =
                   (IF prev = {}
                    THEN E[Maior(criados)].detalhes.tarefa[1][campo]
                    ELSE NovoDe(E[Maior(prev)], campo))
====
